---- MODULE Spec2Model ----
(***************************************************************************)
(* GPX to GeoJSON conversion: GeoGPXer (src/GeoGPXer.js, v1.1.1 and        *)
(* v2.0.0) and Gpx (src/gpxToGeojson.js).                                  *)
(*                                                                         *)
(* A JavaScript string is the sequence of its UTF-16 code units, each     *)
(* written as a one-character string, or as "U+" and four hexadecimal     *)
(* digits where TLA+ has no such string, so that parseFloat and           *)
(* textContent work on characters.  A Number is an IEEE 754 binary64      *)
(* value.  Tag names and property keys are TLA+ strings (prefix           *)
(* concatenation is \o).  A DOM node is a record [nodeType, tagName,      *)
(* attrs, childNodes, data].                                              *)
(***************************************************************************)
EXTENDS Integers, Sequences, FiniteSets, TLC

VARIABLES gpxText, lib, pc, xmlDoc, thrown, console, includeElevation,
          geoJson, node, props

vars == <<gpxText, lib, pc, xmlDoc, thrown, console, includeElevation,
          geoJson, node, props>>

---------------------------------------------------------------------------
(* Bounds of the model *)

\* the largest number of children of the root element gpx
MaxRootChildren == 2

\* the largest number of parsererror elements in the tree of a text that is
\* not well-formed: the parser's one and those of the text's own
MaxErrors == 2

---------------------------------------------------------------------------
(* The DOM, as the code reads it *)

ELEMENT_NODE == 1
TEXT_NODE == 3
PROCESSING_INSTRUCTION_NODE == 7
COMMENT_NODE == 8
DOCUMENT_NODE == 9
DOCUMENT_TYPE_NODE == 10

\* n.tagName of a node that is not an element (undefined in JavaScript);
\* no element has the empty name
Undefined == ""

NoAttrs == {}

Elem(tag, attrs, kids) ==
  [nodeType |-> ELEMENT_NODE, tagName |-> tag, attrs |-> attrs,
   childNodes |-> kids, data |-> <<>>]

Text(d) ==
  [nodeType |-> TEXT_NODE, tagName |-> Undefined, attrs |-> NoAttrs,
   childNodes |-> <<>>, data |-> d]

Comment(d) ==
  [nodeType |-> COMMENT_NODE, tagName |-> Undefined, attrs |-> NoAttrs,
   childNodes |-> <<>>, data |-> d]

ProcInst(d) ==
  [nodeType |-> PROCESSING_INSTRUCTION_NODE, tagName |-> Undefined,
   attrs |-> NoAttrs, childNodes |-> <<>>, data |-> d]

DocType ==
  [nodeType |-> DOCUMENT_TYPE_NODE, tagName |-> Undefined, attrs |-> NoAttrs,
   childNodes |-> <<>>, data |-> <<>>]

Document(kids) ==
  [nodeType |-> DOCUMENT_NODE, tagName |-> Undefined, attrs |-> NoAttrs,
   childNodes |-> kids, data |-> <<>>]

\* a JavaScript value that is a string or null
JsNull == [isNull |-> TRUE, str |-> <<>>]
JsStr(s) == [isNull |-> FALSE, str |-> s]

\* String(v): the conversion parseFloat applies to its argument
JsToString(v) == IF v.isNull THEN <<"n", "u", "l", "l">> ELSE v.str

\* node.getAttribute(name): the value, or null when the attribute is absent
getAttribute(n, name) ==
  IF \E a \in n.attrs : a[1] = name
  THEN JsStr((CHOOSE a \in n.attrs : a[1] = name)[2])
  ELSE JsNull

\* concatenation of a sequence of sequences
RECURSIVE Flatten(_)
Flatten(ss) == IF ss = <<>> THEN <<>> ELSE Head(ss) \o Flatten(Tail(ss))

\* node.textContent: the text of every text descendant, in document order;
\* comments and processing instructions inside an element are left out
RECURSIVE textContent(_)
textContent(n) ==
  IF n.nodeType \in {TEXT_NODE, COMMENT_NODE, PROCESSING_INSTRUCTION_NODE}
  THEN n.data
  ELSE Flatten([i \in 1..Len(n.childNodes) |->
                  IF n.childNodes[i].nodeType \in {ELEMENT_NODE, TEXT_NODE}
                  THEN textContent(n.childNodes[i])
                  ELSE <<>>])

\* node.getElementsByTagName(name): the descendant elements of that name,
\* in document order (preorder), the node itself excluded
RECURSIVE getElementsByTagName(_, _)
getElementsByTagName(n, name) ==
  Flatten([i \in 1..Len(n.childNodes) |->
             LET c == n.childNodes[i] IN
               (IF c.nodeType = ELEMENT_NODE /\ c.tagName = name
                THEN <<c>> ELSE <<>>)
               \o getElementsByTagName(c, name)])

---------------------------------------------------------------------------
(* Natural numbers of any size, for the arithmetic of parseFloat: the     *)
(* sequence of the digits in base 32768, the least significant first and  *)
(* no zero digit at the top; zero is <<>>.                                *)

\* the base of the digits, 2^15
Base == 32768

\* the number of binary digits of a digit of that base
DigitBits == 15

RECURSIVE Pow(_, _)
Pow(b, k) == IF k = 0 THEN 1 ELSE b * Pow(b, k - 1)

Zeros(k) == [i \in 1..k |-> 0]

Front(a) == SubSeq(a, 1, Len(a) - 1)

\* a * k + carry, for 0 < k <= Base and carry < Base
RECURSIVE BigMulSmall(_, _, _)
BigMulSmall(a, k, carry) ==
  IF a = <<>> THEN (IF carry = 0 THEN <<>> ELSE <<carry>>)
  ELSE <<(Head(a) * k + carry) % Base>>
       \o BigMulSmall(Tail(a), k, (Head(a) * k + carry) \div Base)

\* a * 2^k
BigShl(a, k) ==
  IF a = <<>> THEN <<>>
  ELSE Zeros(k \div DigitBits) \o BigMulSmall(a, Pow(2, k % DigitBits), 0)

\* a * 5^k
RECURSIVE BigMulPow5(_, _)
BigMulPow5(a, k) ==
  IF k = 0 THEN a
  ELSE IF k >= 6 THEN BigMulPow5(BigMulSmall(a, Pow(5, 6), 0), k - 6)
  ELSE BigMulSmall(a, Pow(5, k), 0)

\* the number of binary digits of a number below Base
RECURSIVE BitLenSmall(_)
BitLenSmall(x) == IF x = 0 THEN 0 ELSE 1 + BitLenSmall(x \div 2)

\* the number of binary digits of a
BitLen(a) ==
  IF a = <<>> THEN 0
  ELSE DigitBits * (Len(a) - 1) + BitLenSmall(a[Len(a)])

\* a >= b
RECURSIVE BigGeq(_, _)
BigGeq(a, b) ==
  IF Len(a) # Len(b) THEN Len(a) > Len(b)
  ELSE IF a = <<>> THEN TRUE
  ELSE IF a[Len(a)] # b[Len(b)] THEN a[Len(a)] > b[Len(b)]
  ELSE BigGeq(Front(a), Front(b))

\* without the zero digits at the top
RECURSIVE BigNorm(_)
BigNorm(a) ==
  IF a # <<>> /\ a[Len(a)] = 0 THEN BigNorm(Front(a)) ELSE a

\* the digits of a - b - borrow, for a >= b + borrow
RECURSIVE BigSubDigits(_, _, _)
BigSubDigits(a, b, borrow) ==
  IF a = <<>> THEN <<>>
  ELSE LET t == Head(a) - (IF b = <<>> THEN 0 ELSE Head(b)) - borrow
       IN <<IF t < 0 THEN t + Base ELSE t>>
          \o BigSubDigits(Tail(a), IF b = <<>> THEN <<>> ELSE Tail(b),
                          IF t < 0 THEN 1 ELSE 0)

\* a + b + carry
RECURSIVE BigAdd(_, _, _)
BigAdd(a, b, carry) ==
  IF a = <<>> /\ b = <<>> THEN (IF carry = 0 THEN <<>> ELSE <<carry>>)
  ELSE LET t == (IF a = <<>> THEN 0 ELSE Head(a))
                + (IF b = <<>> THEN 0 ELSE Head(b)) + carry
       IN <<t % Base>>
          \o BigAdd(IF a = <<>> THEN <<>> ELSE Tail(a),
                    IF b = <<>> THEN <<>> ELSE Tail(b), t \div Base)

\* a - b, for a >= b
BigSub(a, b) == BigNorm(BigSubDigits(a, b, 0))

---------------------------------------------------------------------------
(* The Number type: IEEE 754 binary64 *)

\* the binary digits of the significand
SignificandBits == 53

\* the exponent of the least positive Number, 2^-1074
MinExponent == -1074

\* 2^1024 and what is above it is no finite Number
MaxBitLen == 1024

NaN == [kind |-> "NaN", neg |-> FALSE, mant |-> <<>>, exp |-> 0]
Infinity(neg) == [kind |-> "Infinity", neg |-> neg, mant |-> <<>>, exp |-> 0]

\* binary digits, the most significant first: without the zeros in front
RECURSIVE StripLeadingZeros(_)
StripLeadingZeros(bits) ==
  IF bits # <<>> /\ Head(bits) = 0 THEN StripLeadingZeros(Tail(bits))
  ELSE bits

\* the number of zeros at the end
RECURSIVE TrailingZeros(_)
TrailingZeros(bits) ==
  IF bits # <<>> /\ bits[Len(bits)] = 0 THEN 1 + TrailingZeros(Front(bits))
  ELSE 0

\* bits + 1
RECURSIVE BitsInc(_)
BitsInc(bits) ==
  IF bits = <<>> THEN <<1>>
  ELSE IF bits[Len(bits)] = 0 THEN Front(bits) \o <<1>>
  ELSE BitsInc(Front(bits)) \o <<0>>

\* the Number (-1)^neg * bits * 2^e, bits the binary digits of a natural
\* number of at most 53 significant digits, the most significant first.
\* A finite Number is written in one way only: mant are the binary digits
\* of its odd significand and exp its exponent, so that 1.5 is
\* [mant |-> <<1, 1>>, exp |-> -1]; zero has mant <<>>, exp 0 and its sign.
Num(neg, bits, e) ==
  LET b == StripLeadingZeros(bits)
      z == TrailingZeros(b)
  IN IF b = <<>>
     THEN [kind |-> "num", neg |-> neg, mant |-> <<>>, exp |-> 0]
     ELSE IF Len(b) + e > MaxBitLen THEN Infinity(neg)
     ELSE [kind |-> "num", neg |-> neg,
           mant |-> SubSeq(b, 1, Len(b) - z), exp |-> e + z]

\* the literal 0
Zero == Num(FALSE, <<>>, 0)

\* long division in binary: the digits of the quotient of r by t from the
\* one of weight 2^i down to the one of weight 1, for r < 2 * 2^i * t, with
\* what is left of r scaled by 2 after each digit.  It stops when nothing is
\* left: the digits not written (left of them) are zeros.
RECURSIVE DivBits(_, _, _, _)
DivBits(r, t, i, bits) ==
  IF i < 0 \/ r = <<>> THEN [bits |-> bits, rem |-> r, left |-> i + 1]
  ELSE IF BigGeq(r, t)
       THEN DivBits(BigMulSmall(BigSub(r, t), 2, 0), t, i - 1,
                    Append(bits, 1))
       ELSE DivBits(BigMulSmall(r, 2, 0), t, i - 1, Append(bits, 0))

\* round to nearest, ties to even: d is what DivBits gives for the divisor
\* t, d.rem being twice the remainder
RoundBits(d, t) ==
  IF /\ d.left = 0
     /\ BigGeq(d.rem, t)
     /\ (d.rem # t \/ d.bits[Len(d.bits)] = 1)
  THEN BitsInc(d.bits)
  ELSE d.bits

\* the s for which n * 2^s / dn has 53 binary digits before the point
AlignShift(n, dn) ==
  LET s == SignificandBits - (BitLen(n) - BitLen(dn))
  IN IF BigGeq(IF s >= 0 THEN BigShl(n, s) ELSE n,
               BigShl(dn, SignificandBits + (IF s >= 0 THEN 0 ELSE 0 - s)))
     THEN s - 1 ELSE s

\* the same, the exponent e - s kept from going below that of the least
\* positive Number (the significand of a subnormal Number is shorter)
ShiftOf(n, dn, e) ==
  IF e - AlignShift(n, dn) < MinExponent THEN e - MinExponent
  ELSE AlignShift(n, dn)

\* n / dn * 2^e, for n > 0 and dn > 0, rounded to the nearest Number
RoundQuotient(neg, n, dn, e, s) ==
  LET t == BigShl(dn, (SignificandBits - 1) + (IF s >= 0 THEN 0 ELSE 0 - s))
      d == DivBits(IF s >= 0 THEN BigShl(n, s) ELSE n, t,
                   SignificandBits - 1, <<>>)
  IN Num(neg, RoundBits(d, t), (e - s) + d.left)

ToNumber(neg, n, dn, e) == RoundQuotient(neg, n, dn, e, ShiftOf(n, dn, e))

---------------------------------------------------------------------------
(* parseFloat *)

\* A character of a JavaScript string is one UTF-16 code unit.  It is
\* written as the one-character string of it where TLA+ can write that
\* ("a", " ", "\t", "\n", "\f", "\r"), and as "U+" and its four hexadecimal
\* digits where it cannot ("U+00A0" is the code unit 160).

Digits == <<"0", "1", "2", "3", "4", "5", "6", "7", "8", "9">>
IsDigit(c) == \E i \in 1..Len(Digits) : Digits[i] = c
DigitVal(c) == (CHOOSE i \in 1..Len(Digits) : Digits[i] = c) - 1

\* StrWhiteSpaceChar: WhiteSpace (TAB, VT, FF, ZWNBSP and the space
\* separators of Unicode) and LineTerminator (LF, CR, LS, PS)
IsWhiteSpace(c) ==
  c \in {"\t", "\n", "U+000B", "\f", "\r", " ", "U+00A0", "U+1680",
         "U+2000", "U+2001", "U+2002", "U+2003", "U+2004", "U+2005",
         "U+2006", "U+2007", "U+2008", "U+2009", "U+200A", "U+2028",
         "U+2029", "U+202F", "U+205F", "U+3000", "U+FEFF"}

\* the number of leading characters of s that are white space: all of
\* them, or those before the first that is not
SpanWs(s) ==
  IF \A i \in 1..Len(s) : IsWhiteSpace(s[i]) THEN Len(s)
  ELSE (CHOOSE i \in 1..Len(s) :
          /\ ~IsWhiteSpace(s[i])
          /\ \A j \in 1..(i - 1) : IsWhiteSpace(s[j])) - 1

\* the number of leading characters of s that are decimal digits
SpanDigits(s) ==
  IF \A i \in 1..Len(s) : IsDigit(s[i]) THEN Len(s)
  ELSE (CHOOSE i \in 1..Len(s) :
          /\ ~IsDigit(s[i])
          /\ \A j \in 1..(i - 1) : IsDigit(s[j])) - 1

\* the number of leading characters of s that are the digit 0
SpanZeros(s) ==
  IF \A i \in 1..Len(s) : s[i] = "0" THEN Len(s)
  ELSE (CHOOSE i \in 1..Len(s) :
          /\ s[i] # "0"
          /\ \A j \in 1..(i - 1) : s[j] = "0") - 1

Drop(s, k) == SubSeq(s, k + 1, Len(s))

\* the value of a run of decimal digits
RECURSIVE DigitsVal(_)
DigitsVal(s) ==
  IF s = <<>> THEN 0
  ELSE DigitsVal(Front(s)) * 10 + DigitVal(s[Len(s)])

\* the natural number a run of decimal digits writes: the first digits,
\* times 10^k for the k digits that follow them, plus these
RECURSIVE BigFromDigits(_)
BigFromDigits(s) ==
  IF Len(s) <= 4
  THEN (IF DigitsVal(s) = 0 THEN <<>> ELSE <<DigitsVal(s)>>)
  ELSE LET k == Len(s) \div 2
       IN BigAdd(BigShl(BigMulPow5(BigFromDigits(SubSeq(s, 1, Len(s) - k)),
                                   k), k),
                 BigFromDigits(Drop(s, Len(s) - k)), 0)

StartsWith(s, p) == Len(s) >= Len(p) /\ SubSeq(s, 1, Len(p)) = p

InfinityChars == <<"I", "n", "f", "i", "n", "i", "t", "y">>

\* the digits before the point are s[1..ni]: is a point next?
HasDot(s, ni) == Len(s) > ni /\ s[ni + 1] = "."

\* the number of digits after the point
FracLen(s, ni) == IF HasDot(s, ni) THEN SpanDigits(Drop(s, ni + 1)) ELSE 0

\* the length of digits, point and digits
MantLen(s, ni) == ni + (IF HasDot(s, ni) THEN 1 + FracLen(s, ni) ELSE 0)

\* the digits of the mantissa, the point left out
MantDigits(s, ni) ==
  SubSeq(s, 1, ni) \o SubSeq(s, ni + 2, ni + 1 + FracLen(s, ni))

\* a whole number of any size: its sign and its absolute value
NoExponent == [neg |-> FALSE, mag |-> <<>>]

\* the exponent read from what follows e or E; 0 when no digit follows
ExponentDigits(u) ==
  IF u # <<>> /\ Head(u) \in {"+", "-"}
  THEN [neg |-> Head(u) = "-",
        mag |-> BigFromDigits(SubSeq(Tail(u), 1, SpanDigits(Tail(u))))]
  ELSE [neg |-> FALSE, mag |-> BigFromDigits(SubSeq(u, 1, SpanDigits(u)))]

\* the exponent read from what follows the mantissa
Exponent(t) ==
  IF t # <<>> /\ Head(t) \in {"e", "E"} THEN ExponentDigits(Tail(t))
  ELSE NoExponent

\* a natural number below 2^31 as one of any size, and back
RECURSIVE BigFromInt(_)
BigFromInt(k) ==
  IF k = 0 THEN <<>> ELSE <<k % Base>> \o BigFromInt(k \div Base)

RECURSIVE BigToInt(_)
BigToInt(a) == IF a = <<>> THEN 0 ELSE Head(a) + Base * BigToInt(Tail(a))

\* the literal is digits * 10^(x - frac), digits the digits of the mantissa
\* without the point, frac the number of them after the point and x the
\* exponent.  With k significant digits its value is below 10^(k + x - frac)
\* and at least a tenth of that: OrderUp - OrderDown is k + x - frac.
OrderUp(digits, x) ==
  BigAdd(BigFromInt(Len(digits) - SpanZeros(digits)),
         IF x.neg THEN <<>> ELSE x.mag, 0)

OrderDown(frac, x) ==
  BigAdd(BigFromInt(frac), IF x.neg THEN x.mag ELSE <<>>, 0)

\* a - b, for natural numbers a and b that differ by less than 2^31
Difference(a, b) ==
  IF BigGeq(a, b) THEN BigToInt(BigSub(a, b)) ELSE 0 - BigToInt(BigSub(b, a))

\* the Number nearest to n * 10^e, for n > 0: 10^e is 5^e * 2^e
ScaleToNumber(neg, n, e) ==
  IF e >= 0 THEN ToNumber(neg, BigMulPow5(n, e), <<1>>, e)
  ELSE ToNumber(neg, n, BigMulPow5(<<1>>, 0 - e), e)

\* the Number nearest to the mathematical value of the literal.  A value of
\* 10^309 or more is above every finite Number, and one below 10^-324 is
\* nearer to 0 than to the least positive Number.
DecimalToNumber(neg, digits, frac, x) ==
  IF BigFromDigits(digits) = <<>> THEN Num(neg, <<>>, 0)
  ELSE IF BigGeq(OrderUp(digits, x),
                 BigAdd(OrderDown(frac, x), BigFromInt(310), 0))
       THEN Infinity(neg)
  ELSE IF BigGeq(OrderDown(frac, x),
                 BigAdd(OrderUp(digits, x), BigFromInt(324), 0))
       THEN Num(neg, <<>>, 0)
  ELSE ScaleToNumber(neg, BigFromDigits(digits),
                     Difference(OrderUp(digits, x), OrderDown(frac, x))
                     - (Len(digits) - SpanZeros(digits)))

\* the literal after the sign
ParseUnsigned(s, neg, ni) ==
  IF StartsWith(s, InfinityChars) THEN Infinity(neg)
  ELSE IF ni = 0 /\ FracLen(s, ni) = 0 THEN NaN
  ELSE DecimalToNumber(neg, MantDigits(s, ni), FracLen(s, ni),
                       Exponent(Drop(s, MantLen(s, ni))))

\* the literal after the leading white space
ParseSigned(s) ==
  IF s # <<>> /\ Head(s) \in {"+", "-"}
  THEN ParseUnsigned(Tail(s), Head(s) = "-", SpanDigits(Tail(s)))
  ELSE ParseUnsigned(s, FALSE, SpanDigits(s))

\* leading white space skipped
TrimStart(s) == Drop(s, SpanWs(s))

\* parseFloat(v): leading white space is skipped, then the longest prefix
\* that is a decimal literal (sign, digits, fraction, exponent) is read;
\* what follows is ignored; NaN when there is no such prefix
parseFloat(v) == ParseSigned(TrimStart(JsToString(v)))

---------------------------------------------------------------------------
(* GeoGPXer, src/GeoGPXer.js *)

EmptyProps == [k \in {} |-> <<>>]

\* props[k] = v, props an object made by {}: the key "__proto__" is the
\* accessor the object inherits from Object.prototype, and its setter
\* ignores a value that is a string, so that no property is set
Put(p, k, v) ==
  IF k = "__proto__" THEN p
  ELSE [x \in DOMAIN p \cup {k} |-> IF x = k THEN v ELSE p[x]]

\* GeoGPXer.prototype.extractProperties, first loop: the direct element
\* children other than extensions
StdProps(n) ==
  LET kids == n.childNodes
      F[i \in 0..Len(kids)] ==
        IF i = 0 THEN EmptyProps
        ELSE IF kids[i].nodeType = ELEMENT_NODE
                /\ kids[i].tagName # "extensions"
             THEN Put(F[i - 1], kids[i].tagName, textContent(kids[i]))
             ELSE F[i - 1]
  IN F[Len(kids)]

\* lines 390-391: the extensions elements below the node, in document order
extensionsOf(n) == getElementsByTagName(n, "extensions")

\* GeoGPXer.prototype.extractProperties, second loop: the element children
\* of the extensions element block, written over the properties p under
\* the prefix
ExtProps(block, p, prefix) ==
  LET kids == block.childNodes
      F[i \in 0..Len(kids)] ==
        IF i = 0 THEN p
        ELSE IF kids[i].nodeType = ELEMENT_NODE
             THEN Put(F[i - 1], prefix \o kids[i].tagName,
                      textContent(kids[i]))
             ELSE F[i - 1]
  IN F[Len(kids)]

extractProperties(n) ==
  IF Len(extensionsOf(n)) > 0
  THEN ExtProps(extensionsOf(n)[1], StdProps(n), "ex_")
  ELSE StdProps(n)

\* coordFromNode pushing no elevation when the point has no ele element
coordFromNode_noDefault(n, inc) ==
  LET coords == <<parseFloat(getAttribute(n, "lon")),
                  parseFloat(getAttribute(n, "lat"))>>
      eles == getElementsByTagName(n, "ele")
  IN IF inc /\ Len(eles) > 0
     THEN Append(coords, parseFloat(JsStr(textContent(eles[1]))))
     ELSE coords

coordFromNode(n, inc) ==
  LET coords == <<parseFloat(getAttribute(n, "lon")),
                  parseFloat(getAttribute(n, "lat"))>>
  IN IF inc
     THEN LET eles == getElementsByTagName(n, "ele")
              elevation == IF Len(eles) > 0
                           THEN parseFloat(JsStr(textContent(eles[1])))
                           ELSE Zero
          IN Append(coords, elevation)
     ELSE coords

makeFeature(type, coords, p) ==
  [type |-> "Feature",
   geometry |-> [type |-> type, coordinates |-> coords],
   properties |-> p]

wptToPoint(n, inc) ==
  makeFeature("Point", coordFromNode(n, inc), extractProperties(n))

\* the coordinates of the elements of a list, in order
CoordsOf(ns, inc) == [i \in 1..Len(ns) |-> coordFromNode(ns[i], inc)]

\* trkToMultiLineString leaving out the segments that have no point
trkToMultiLineString_skipEmpty(n, inc) ==
  LET kids == n.childNodes
      F[i \in 0..Len(kids)] ==
        IF i = 0 THEN <<>>
        ELSE IF kids[i].tagName = "trkseg"
                /\ Len(getElementsByTagName(kids[i], "trkpt")) > 0
             THEN Append(F[i - 1],
                         CoordsOf(getElementsByTagName(kids[i], "trkpt"), inc))
             ELSE F[i - 1]
  IN makeFeature("MultiLineString", F[Len(kids)], extractProperties(n))

trkToMultiLineString(n, inc) ==
  LET kids == n.childNodes
      F[i \in 0..Len(kids)] ==
        IF i = 0 THEN <<>>
        ELSE IF kids[i].tagName = "trkseg"
             THEN Append(F[i - 1],
                         CoordsOf(getElementsByTagName(kids[i], "trkpt"), inc))
             ELSE F[i - 1]
  IN makeFeature("MultiLineString", F[Len(kids)], extractProperties(n))

\* rteToLineString taking every rtept below the route, not only its children
rteToLineString_descendants(n, inc) ==
  makeFeature("LineString",
              CoordsOf(getElementsByTagName(n, "rtept"), inc),
              extractProperties(n))

rteToLineString(n, inc) ==
  LET kids == n.childNodes
      F[i \in 0..Len(kids)] ==
        IF i = 0 THEN <<>>
        ELSE IF kids[i].tagName = "rtept"
             THEN Append(F[i - 1], coordFromNode(kids[i], inc))
             ELSE F[i - 1]
  IN makeFeature("LineString", F[Len(kids)], extractProperties(n))

\* what a call delivers when it throws a TypeError instead of returning
TypeErrorThrown == [type |-> "TypeError", features |-> <<>>]

\* toGeoJSON with a default case that throws on any other root child
toGeoJSON_strict(document, inc) ==
  IF Len(document.childNodes) = 0 THEN TypeErrorThrown
  ELSE LET kids == document.childNodes[1].childNodes
           F[i \in 0..Len(kids)] ==
             IF i = 0 THEN <<>>
             ELSE CASE kids[i].tagName = "wpt" ->
                         Append(F[i - 1], wptToPoint(kids[i], inc))
                    [] kids[i].tagName = "trk" ->
                         Append(F[i - 1], trkToMultiLineString(kids[i], inc))
                    [] kids[i].tagName = "rte" ->
                         Append(F[i - 1], rteToLineString(kids[i], inc))
                    [] OTHER -> F[i - 1]
       IN IF \E i \in 1..Len(kids) :
               kids[i].tagName \notin {"wpt", "trk", "rte"}
          THEN TypeErrorThrown
          ELSE [type |-> "FeatureCollection", features |-> F[Len(kids)]]

\* toGeoJSON with the case "rte" left out of the switch
toGeoJSON_noRte(document, inc) ==
  IF Len(document.childNodes) = 0 THEN TypeErrorThrown
  ELSE LET kids == document.childNodes[1].childNodes
           F[i \in 0..Len(kids)] ==
             IF i = 0 THEN <<>>
             ELSE CASE kids[i].tagName = "wpt" ->
                         Append(F[i - 1], wptToPoint(kids[i], inc))
                    [] kids[i].tagName = "trk" ->
                         Append(F[i - 1], trkToMultiLineString(kids[i], inc))
                    [] OTHER -> F[i - 1]
       IN [type |-> "FeatureCollection", features |-> F[Len(kids)]]

\* document.firstChild.childNodes is a TypeError when firstChild is null
toGeoJSON(document, inc) ==
  IF Len(document.childNodes) = 0 THEN TypeErrorThrown
  ELSE LET kids == document.childNodes[1].childNodes
           F[i \in 0..Len(kids)] ==
             IF i = 0 THEN <<>>
             ELSE CASE kids[i].tagName = "wpt" ->
                         Append(F[i - 1], wptToPoint(kids[i], inc))
                    [] kids[i].tagName = "trk" ->
                         Append(F[i - 1], trkToMultiLineString(kids[i], inc))
                    [] kids[i].tagName = "rte" ->
                         Append(F[i - 1], rteToLineString(kids[i], inc))
                    [] OTHER -> F[i - 1]
       IN [type |-> "FeatureCollection", features |-> F[Len(kids)]]

---------------------------------------------------------------------------
(* Gpx, src/gpxToGeojson.js: no elevation, prefix extension_ *)

Gpx_extractProperties(n) ==
  IF Len(extensionsOf(n)) > 0
  THEN ExtProps(extensionsOf(n)[1], StdProps(n), "extension_")
  ELSE StdProps(n)

Gpx_coordFromNode(n) ==
  <<parseFloat(getAttribute(n, "lon")), parseFloat(getAttribute(n, "lat"))>>

Gpx_makeFeature(type, coords, p) ==
  [type |-> "Feature",
   geometry |-> [type |-> type, coordinates |-> coords],
   properties |-> p]

Gpx_wptToPoint(n) ==
  Gpx_makeFeature("Point", Gpx_coordFromNode(n), Gpx_extractProperties(n))

Gpx_trkToMultiLineString(n) ==
  LET kids == n.childNodes
      F[i \in 0..Len(kids)] ==
        IF i = 0 THEN <<>>
        ELSE IF kids[i].tagName = "trkseg"
             THEN LET pts == getElementsByTagName(kids[i], "trkpt") IN
                    Append(F[i - 1],
                           [j \in 1..Len(pts) |-> Gpx_coordFromNode(pts[j])])
             ELSE F[i - 1]
  IN Gpx_makeFeature("MultiLineString", F[Len(kids)],
                     Gpx_extractProperties(n))

Gpx_rteToLineString(n) ==
  LET kids == n.childNodes
      F[i \in 0..Len(kids)] ==
        IF i = 0 THEN <<>>
        ELSE IF kids[i].tagName = "rtept"
             THEN Append(F[i - 1], Gpx_coordFromNode(kids[i]))
             ELSE F[i - 1]
  IN Gpx_makeFeature("LineString", F[Len(kids)], Gpx_extractProperties(n))

Gpx_toGeoJSON(document) ==
  IF Len(document.childNodes) = 0 THEN TypeErrorThrown
  ELSE LET kids == document.childNodes[1].childNodes
           F[i \in 0..Len(kids)] ==
             IF i = 0 THEN <<>>
             ELSE CASE kids[i].tagName = "wpt" ->
                         Append(F[i - 1], Gpx_wptToPoint(kids[i]))
                    [] kids[i].tagName = "trk" ->
                         Append(F[i - 1], Gpx_trkToMultiLineString(kids[i]))
                    [] kids[i].tagName = "rte" ->
                         Append(F[i - 1], Gpx_rteToLineString(kids[i]))
                    [] OTHER -> F[i - 1]
       IN [type |-> "FeatureCollection", features |-> F[Len(kids)]]

---------------------------------------------------------------------------
(* read *)

\* new DOMParser().parseFromString(gpxText, "application/xml"): the parser
\* is the host's; an input text is given with the tree the parser builds
\* from it, which for a text that is not well-formed holds parsererror
\* elements
parseFromString(text) == text.dom

NoDoc == [nodeType |-> 0, tagName |-> Undefined, attrs |-> NoAttrs,
          childNodes |-> <<>>, data |-> <<>>]
NoError == [name |-> "none", message |-> <<>>]

\* the decimal digits of a positive number
RECURSIVE DecimalChars(_)
DecimalChars(k) ==
  IF k < 10 THEN <<Digits[k + 1]>>
  ELSE DecimalChars(k \div 10) \o <<Digits[(k % 10) + 1]>>

\* Array.prototype.join
RECURSIVE Join(_, _)
Join(ss, sep) ==
  IF ss = <<>> THEN <<>>
  ELSE IF Len(ss) = 1 THEN ss[1]
  ELSE ss[1] \o sep \o Join(Tail(ss), sep)

ParsingErrorChars == <<"P", "a", "r", "s", "i", "n", "g", " ", "E", "r", "r", "o", "r", " ">>
FailedToParseChars ==
  <<"F", "a", "i", "l", "e", "d", " ", "t", "o", " ", "p", "a", "r", "s", "e", " ",
    "G", "P", "X", ".", " ", "S", "e", "e", " ",
    "c", "o", "n", "s", "o", "l", "e", " ", "f", "o", "r", " ",
    "d", "e", "t", "a", "i", "l", "s", ".">>

\* errorMessages numbering the messages from 0 (index in place of index + 1)
errorMessages_fromZero(parseErrors) ==
  Join([i \in 1..Len(parseErrors) |->
          ParsingErrorChars \o DecimalChars(i - 1) \o <<":", " ">>
          \o textContent(parseErrors[i])],
       <<"\n">>)

\* lines 253-257: `Parsing Error ${index + 1}: ${errorElement.textContent}`
\* of every parsererror element, joined by "\n"
errorMessages(parseErrors) ==
  Join([i \in 1..Len(parseErrors) |->
          ParsingErrorChars \o DecimalChars((i - 1) + 1) \o <<":", " ">>
          \o textContent(parseErrors[i])],
       <<"\n">>)

\* GeoGPXer.prototype.read (v2.0.0): what it returns, throws and logs
read(text) ==
  LET xml == parseFromString(text)
      parseErrors == getElementsByTagName(xml, "parsererror")
  IN IF Len(parseErrors) > 0
     THEN [returned |-> NoDoc,
           thrown |-> [name |-> "Error", message |-> FailedToParseChars],
           logged |-> <<errorMessages(parseErrors)>>]
     ELSE [returned |-> xml, thrown |-> NoError, logged |-> <<>>]

\* GeoGPXer.prototype.read (v1.1.1)
read_v111(text) ==
  [returned |-> parseFromString(text), thrown |-> NoError, logged |-> <<>>]

\* Gpx.prototype.read
Gpx_read(text) ==
  [returned |-> parseFromString(text), thrown |-> NoError, logged |-> <<>>]

---------------------------------------------------------------------------
(* Input texts: each with the tree the parser builds from it *)

El(tag, kids) == Elem(tag, NoAttrs, kids)
Leaf(tag, chars) == Elem(tag, NoAttrs, <<Text(chars)>>)
LonLat(lon, lat) == {<<"lon", lon>>, <<"lat", lat>>}
Ws == Text(<<"\n", " ">>)

\* <wpt lon="1.5" lat="2.5"><name>Lake</name><ele>100.0</ele>
\*   <extensions><color>red</color></extensions></wpt>
W_plain ==
  Elem("wpt", LonLat(<<"1", ".", "5">>, <<"2", ".", "5">>),
       <<Leaf("name", <<"L", "a", "k", "e">>),
         Leaf("ele", <<"1", "0", "0", ".", "0">>),
         El("extensions", <<Leaf("color", <<"r", "e", "d">>)>>)>>)

\* <wpt/>
W_bare == Elem("wpt", NoAttrs, <<>>)

\* a standard child named as a prefixed extension key, a repeated extension
\* tag and a second extensions block
W_clash ==
  Elem("wpt", LonLat(<<"a", "b", "c">>, <<"1", "2", "a">>),
       <<Leaf("ex_color", <<"b", "l", "u", "e">>),
         Leaf("extension_color", <<"b", "l", "u", "e">>),
         El("extensions", <<Leaf("color", <<"r", "e", "d">>), Ws,
                            Leaf("color", <<"t", "a", "n">>)>>),
         El("extensions", <<Leaf("size", <<"9">>)>>)>>)

\* a repeated tag, a child with element content, an extensions element and
\* an ele element below a child, before the direct ones
W_deep ==
  Elem("wpt", LonLat(<<"-", "2">>, <<" ", "3">>),
       <<Leaf("name", <<"a">>),
         El("link", <<Leaf("text", <<"F", "o", "o">>),
                      El("extensions", <<Leaf("hr", <<"1">>)>>)>>),
         Leaf("name", <<"b">>),
         El("extensions", <<Leaf("ele", <<"7">>)>>),
         Leaf("ele", <<"5">>)>>)

\* two segments, the first of two points, the second empty
K_two ==
  El("trk",
     <<Ws, Leaf("name", <<"T">>),
       El("trkseg",
          <<Ws,
            Elem("trkpt", LonLat(<<"1", ".", "5">>, <<"2", ".", "5">>),
                 <<Leaf("ele", <<"1", "0", "0", ".", "0">>)>>),
            Elem("trkpt", NoAttrs, <<>>)>>),
       Ws, El("trkseg", <<>>)>>)

\* no segment
K_none == El("trk", <<Leaf("name", <<"T">>)>>)

\* extensions only inside a track point; a track point below another child
\* of the segment
K_ext ==
  El("trk",
     <<El("trkseg",
          <<Elem("trkpt", LonLat(<<"1">>, <<"2">>),
                 <<El("extensions", <<Leaf("hr", <<"1">>)>>)>>),
            El("extensions",
               <<Elem("trkpt", LonLat(<<"3">>, <<"4">>), <<>>)>>)>>)>>)

R_two ==
  El("rte",
     <<Leaf("name", <<"R">>),
       Elem("rtept", LonLat(<<"1", ".", "5">>, <<"2", ".", "5">>),
            <<Leaf("ele", <<"a", "b", "c">>)>>),
       Elem("rtept", {<<"lon", <<"7">>>>}, <<>>)>>)

\* a route point below another child of the route
R_nest ==
  El("rte",
     <<El("extensions",
          <<Elem("rtept", LonLat(<<"3">>, <<"4">>), <<>>)>>),
       Elem("rtept", LonLat(<<"5">>, <<"6">>), <<>>)>>)

\* no route point
R_none == El("rte", <<Leaf("name", <<"R">>)>>)

\* <wpt><__proto__>x</__proto__><name>n</name></wpt>
W_proto ==
  Elem("wpt", LonLat(<<"U+00A0", "1", ".", "5">>,
                     <<"-", "1", "2", "2", ".", "4", "1", "9", "4", "1",
                       "5", "5", "0">>),
       <<Leaf("__proto__", <<"x">>), Leaf("name", <<"n">>),
         Leaf("ele", <<"1", "e", "4", "0", "0">>)>>)

Metadata == El("metadata", <<Leaf("name", <<"m">>)>>)

\* an element of the input's own that is named parsererror
OwnParserError == Leaf("parsererror", <<"x">>)

RootPool ==
  {W_plain, W_bare, W_clash, W_deep, W_proto, K_two, K_none, K_ext, R_two,
   R_nest, R_none, Ws, Metadata, Comment(<<"c">>), OwnParserError}

SmallPool == {W_plain, K_two, R_two}

SeqsUpTo(S, n) == UNION {[1..k -> S] : k \in 0..n}

Prologs == {Comment(<<"c">>), ProcInst(<<"p">>), DocType}

\* a file with metadata, white space between the elements, and waypoints,
\* a track and a route
SampleDoc ==
  Document(<<El("gpx", <<Ws, Metadata, Ws, W_plain, Ws, K_two, Ws, R_two,
                         Ws, W_bare, Ws>>)>>)

\* The children the parser builds from the pieces of a text: character data
\* that follows character data is one text node, so no two text nodes are
\* next to each other ("\n " twice is the one text node "\n \n ").
RECURSIVE MergeText(_)
MergeText(kids) ==
  IF Len(kids) < 2 THEN kids
  ELSE IF kids[1].nodeType = TEXT_NODE /\ kids[2].nodeType = TEXT_NODE
       THEN MergeText(<<Text(kids[1].data \o kids[2].data)>>
                      \o SubSeq(kids, 3, Len(kids)))
       ELSE <<kids[1]>> \o MergeText(Tail(kids))

\* well-formed texts: the root element gpx first, or after one leading node
WellFormedDoms ==
  {SampleDoc} \cup
  {Document(<<El("gpx", MergeText(kids))>>) :
     kids \in SeqsUpTo(RootPool, MaxRootChildren)}
  \cup
  {Document(<<d[1], El("gpx", MergeText(d[2]))>>) :
     d \in Prologs \X SeqsUpTo(SmallPool, MaxRootChildren)}

\* What the parser leaves for a text that is not well-formed: an element
\* parsererror with a style attribute and the children h3, div and h3, put
\* before the first child of the root element; the div holds the message.

ErrorStyleChars ==
  <<"d", "i", "s", "p", "l", "a", "y", ":", " ", "b", "l", "o", "c", "k",
    ";", " ", "w", "h", "i", "t", "e", "-", "s", "p", "a", "c", "e", ":",
    " ", "p", "r", "e", ";", " ", "b", "o", "r", "d", "e", "r", ":", " ",
    "2", "p", "x", " ", "s", "o", "l", "i", "d", " ", "#", "c", "7", "7",
    ";", " ", "p", "a", "d", "d", "i", "n", "g", ":", " ", "0", " ", "1",
    "e", "m", " ", "0", " ", "1", "e", "m", ";", " ", "m", "a", "r", "g",
    "i", "n", ":", " ", "1", "e", "m", ";", " ", "b", "a", "c", "k", "g",
    "r", "o", "u", "n", "d", "-", "c", "o", "l", "o", "r", ":", " ", "#",
    "f", "d", "d", ";", " ", "c", "o", "l", "o", "r", ":", " ", "b", "l",
    "a", "c", "k">>

ErrorHeaderChars ==
  <<"T", "h", "i", "s", " ", "p", "a", "g", "e", " ", "c", "o", "n", "t",
    "a", "i", "n", "s", " ", "t", "h", "e", " ", "f", "o", "l", "l", "o",
    "w", "i", "n", "g", " ", "e", "r", "r", "o", "r", "s", ":">>

\* The message of the parser for an end tag that does not close the open
\* element: "error on line 1 at column " and the column, ": Opening and
\* ending tag mismatch: ", the name of the open element and " line 1 and
\* gpx\n".  The texts here are of one line and the end tag is </gpx>.
ErrorAtChars ==
  <<"e", "r", "r", "o", "r", " ", "o", "n", " ", "l", "i", "n", "e", " ",
    "1", " ", "a", "t", " ", "c", "o", "l", "u", "m", "n", " ">>

MismatchChars ==
  <<":", " ", "O", "p", "e", "n", "i", "n", "g", " ", "a", "n", "d", " ",
    "e", "n", "d", "i", "n", "g", " ", "t", "a", "g", " ", "m", "i", "s",
    "m", "a", "t", "c", "h", ":", " ">>

AndGpxChars ==
  <<" ", "l", "i", "n", "e", " ", "1", " ", "a", "n", "d", " ", "g", "p",
    "x", "\n">>

\* name: the characters of the open element's name
MismatchMessage(name, column) ==
  ErrorAtChars \o DecimalChars(column) \o MismatchChars \o name \o AndGpxChars

MessageStyleChars ==
  <<"f", "o", "n", "t", "-", "f", "a", "m", "i", "l", "y", ":", "m", "o",
    "n", "o", "s", "p", "a", "c", "e", ";", "f", "o", "n", "t", "-", "s",
    "i", "z", "e", ":", "1", "2", "p", "x">>

ErrorFooterChars ==
  <<"B", "e", "l", "o", "w", " ", "i", "s", " ", "a", " ", "r", "e", "n",
    "d", "e", "r", "i", "n", "g", " ", "o", "f", " ", "t", "h", "e", " ",
    "p", "a", "g", "e", " ", "u", "p", " ", "t", "o", " ", "t", "h", "e",
    " ", "f", "i", "r", "s", "t", " ", "e", "r", "r", "o", "r", ".">>

\* the parsererror element that holds the message
ParserError(message) ==
  Elem("parsererror", {<<"style", ErrorStyleChars>>},
       <<Leaf("h3", ErrorHeaderChars),
         Elem("div", {<<"style", MessageStyleChars>>}, <<Text(message)>>),
         Leaf("h3", ErrorFooterChars)>>)

\* the i-th element named parsererror of the text's own
OwnParserErrorNo(i) == Leaf("parsererror", <<"E", Digits[(i % 10) + 1]>>)

GpxStartChars == <<"<", "g", "p", "x", ">">>
GpxEndChars == <<"<", "/", "g", "p", "x", ">">>

\* <parsererror>
OwnErrorStartChars ==
  <<"<", "p", "a", "r", "s", "e", "r", "e", "r", "r", "o", "r", ">">>

\* </parsererror>
OwnErrorEndChars ==
  <<"<", "/", "p", "a", "r", "s", "e", "r", "e", "r", "r", "o", "r", ">">>

\* the text of W_plain:
\* <wpt lon="1.5" lat="2.5"><name>Lake</name><ele>100.0</ele><extensions>
\* <color>red</color></extensions></wpt>  (one line, no white space between
\* the elements)
W_plainChars ==
  <<"<", "w", "p", "t", " ", "l", "o", "n", "=", "\"", "1", ".", "5", "\"",
    " ", "l", "a", "t", "=", "\"", "2", ".", "5", "\"", ">", "<", "n", "a",
    "m", "e", ">", "L", "a", "k", "e", "<", "/", "n", "a", "m", "e", ">",
    "<", "e", "l", "e", ">", "1", "0", "0", ".", "0", "<", "/", "e", "l",
    "e", ">", "<", "e", "x", "t", "e", "n", "s", "i", "o", "n", "s", ">",
    "<", "c", "o", "l", "o", "r", ">", "r", "e", "d", "<", "/", "c", "o",
    "l", "o", "r", ">", "<", "/", "e", "x", "t", "e", "n", "s", "i", "o",
    "n", "s", ">", "<", "/", "w", "p", "t", ">">>

\* the text of R_two:
\* <rte><name>R</name><rtept lon="1.5" lat="2.5"><ele>abc</ele></rtept>
\* <rtept lon="7"></rtept></rte>  (one line, no white space between the
\* elements)
R_twoChars ==
  <<"<", "r", "t", "e", ">", "<", "n", "a", "m", "e", ">", "R", "<", "/",
    "n", "a", "m", "e", ">", "<", "r", "t", "e", "p", "t", " ", "l", "o",
    "n", "=", "\"", "1", ".", "5", "\"", " ", "l", "a", "t", "=", "\"", "2",
    ".", "5", "\"", ">", "<", "e", "l", "e", ">", "a", "b", "c", "<", "/",
    "e", "l", "e", ">", "<", "/", "r", "t", "e", "p", "t", ">", "<", "r",
    "t", "e", "p", "t", " ", "l", "o", "n", "=", "\"", "7", "\"", ">", "<",
    "/", "r", "t", "e", "p", "t", ">", "<", "/", "r", "t", "e", ">">>

\* <wpt lon="1" lat="2">
WptLonLatStartChars ==
  <<"<", "w", "p", "t", " ", "l", "o", "n", "=", "\"", "1", "\"", " ", "l",
    "a", "t", "=", "\"", "2", "\"", ">">>

WptStartChars == <<"<", "w", "p", "t", ">">>
TrkStartChars == <<"<", "t", "r", "k", ">">>

\* a complete element of a text: its characters and the node parsed from them
Piece(text, n) == [text |-> text, node |-> n]

CompletePieces == {Piece(W_plainChars, W_plain), Piece(R_twoChars, R_two)}

\* <parsererror>Ei</parsererror>
OwnErrorPiece(i) ==
  Piece(OwnErrorStartChars \o <<"E", Digits[(i % 10) + 1]>>
        \o OwnErrorEndChars,
        OwnParserErrorNo(i))

\* a start tag: its characters, the name, and the element it opens
StartTag(text, name, n) == [text |-> text, name |-> name, node |-> n]

StartTags ==
  {StartTag(WptLonLatStartChars, <<"w", "p", "t">>,
            Elem("wpt", LonLat(<<"1">>, <<"2">>), <<>>)),
   StartTag(WptStartChars, <<"w", "p", "t">>, Elem("wpt", NoAttrs, <<>>)),
   StartTag(TrkStartChars, <<"t", "r", "k">>, Elem("trk", NoAttrs, <<>>))}

\* Texts that are not well-formed, of the shape
\*   <gpx> complete elements  <wpt lon="1" lat="2"> </gpx>
\* (without the spaces): a child of the root element is open where the end
\* tag of the root element comes.  The complete elements are d[1] elements
\* named parsererror of the text's own, then at most one other; d[3] is the
\* start tag left open.  The smallest are <gpx><wpt></gpx>, <gpx><trk></gpx>
\* and <gpx><wpt lon="1" lat="2"></gpx>.
MalformedTexts ==
  {LET pieces == [i \in 1..d[1] |-> OwnErrorPiece(i)] \o d[2]
   IN [text |-> GpxStartChars
                \o Flatten([i \in 1..Len(pieces) |-> pieces[i].text])
                \o d[3].text \o GpxEndChars,
       parsed |-> [i \in 1..Len(pieces) |-> pieces[i].node],
       open |-> d[3]] :
     d \in (0..(MaxErrors - 1)) \X SeqsUpTo(CompletePieces, 1) \X StartTags}

\* The tree the parser builds for such a text m: the root element holds
\* what was parsed before the error, the complete elements and the open
\* element (with its attributes, without children), and before its first
\* child the parser's parsererror element.  The parser reports the error
\* where it has read the end tag, at the column after the last character of
\* the text: for <gpx><wpt lon="1" lat="2"></gpx>, of 32 characters, "error
\* on line 1 at column 33: Opening and ending tag mismatch: wpt line 1 and
\* gpx\n".  It stops at the first error, so it leaves one parsererror
\* element; any other in the tree is of the text's own.
parseMalformed(m) ==
  Document(<<El("gpx",
                <<ParserError(MismatchMessage(m.open.name, Len(m.text) + 1))>>
                \o m.parsed \o <<m.open.node>>)>>)

MalformedDoms == {parseMalformed(m) : m \in MalformedTexts}

\* an input text is given with the tree the parser builds from it, and with
\* whether the text is well-formed
Inputs ==
  {[wellFormed |-> TRUE, dom |-> d] : d \in WellFormedDoms}
  \cup {[wellFormed |-> FALSE, dom |-> d] : d \in MalformedDoms}

\* the elements below a node
RECURSIVE Elements(_)
Elements(n) ==
  UNION {(IF n.childNodes[i].nodeType = ELEMENT_NODE
          THEN {n.childNodes[i]} ELSE {})
         \cup Elements(n.childNodes[i]) : i \in 1..Len(n.childNodes)}

---------------------------------------------------------------------------
(* The calls a client makes: read, then toGeoJSON or extractProperties *)

NoResult == [type |-> "none", features |-> <<>>]
\* the TypeError of document.firstChild.childNodes when firstChild is null:
\* "Cannot read properties of null (reading 'childNodes')"
TypeErrorChars ==
  <<"C", "a", "n", "n", "o", "t", " ", "r", "e", "a", "d", " ", "p", "r",
    "o", "p", "e", "r", "t", "i", "e", "s", " ", "o", "f", " ", "n", "u",
    "l", "l", " ", "(", "r", "e", "a", "d", "i", "n", "g", " ", "'", "c",
    "h", "i", "l", "d", "N", "o", "d", "e", "s", "'", ")">>

TypeError == [name |-> "TypeError", message |-> TypeErrorChars]

Init ==
  /\ gpxText \in Inputs
  /\ lib = "none"
  /\ pc = "start"
  /\ xmlDoc = NoDoc
  /\ thrown = NoError
  /\ console = <<>>
  /\ includeElevation = FALSE
  /\ geoJson = NoResult
  /\ node = NoDoc
  /\ props = EmptyProps

\* the state after a read call that delivered r
AfterRead(r, l) ==
  /\ lib' = l
  /\ xmlDoc' = r.returned
  /\ thrown' = r.thrown
  /\ console' = console \o r.logged
  /\ pc' = IF r.thrown = NoError THEN "read" ELSE "failed"
  /\ UNCHANGED <<gpxText, includeElevation, geoJson, node, props>>

Read == pc = "start" /\ AfterRead(read(gpxText), "GeoGPXer")

Read_v111 == pc = "start" /\ AfterRead(read_v111(gpxText), "GeoGPXer_v111")

Gpx_Read == pc = "start" /\ AfterRead(Gpx_read(gpxText), "Gpx")

\* the state after a toGeoJSON call that delivered g
AfterToGeoJSON(g, inc) ==
  /\ includeElevation' = inc
  /\ geoJson' = IF g = TypeErrorThrown THEN NoResult ELSE g
  /\ thrown' = IF g = TypeErrorThrown THEN TypeError ELSE thrown
  /\ pc' = IF g = TypeErrorThrown THEN "failed" ELSE "converted"
  /\ UNCHANGED <<gpxText, lib, xmlDoc, console, node, props>>

ToGeoJSON ==
  /\ pc = "read"
  /\ lib \in {"GeoGPXer", "GeoGPXer_v111"}
  /\ \E inc \in BOOLEAN : AfterToGeoJSON(toGeoJSON(xmlDoc, inc), inc)

Gpx_ToGeoJSON ==
  /\ pc = "read"
  /\ lib = "Gpx"
  /\ AfterToGeoJSON(Gpx_toGeoJSON(xmlDoc), FALSE)

ExtractProperties ==
  /\ pc = "read"
  /\ lib \in {"GeoGPXer", "GeoGPXer_v111"}
  /\ \E n \in Elements(xmlDoc) :
       /\ node' = n
       /\ props' = extractProperties(n)
  /\ pc' = "extracted"
  /\ UNCHANGED <<gpxText, lib, xmlDoc, thrown, console, includeElevation,
                 geoJson>>

Gpx_ExtractProperties ==
  /\ pc = "read"
  /\ lib = "Gpx"
  /\ \E n \in Elements(xmlDoc) :
       /\ node' = n
       /\ props' = Gpx_extractProperties(n)
  /\ pc' = "extracted"
  /\ UNCHANGED <<gpxText, lib, xmlDoc, thrown, console, includeElevation,
                 geoJson>>

Next ==
  \/ Read
  \/ Gpx_Read
  \/ Read_v111
  \/ ToGeoJSON
  \/ Gpx_ToGeoJSON
  \/ ExtractProperties
  \/ Gpx_ExtractProperties

Spec == Init /\ [][Next]_vars

---------------------------------------------------------------------------
(* Properties *)

GeoGPXerLibs == {"GeoGPXer", "GeoGPXer_v111"}

\* the properties the library in use extracts from a node
PropsBy(l, n) ==
  IF l = "Gpx" THEN Gpx_extractProperties(n) ELSE extractProperties(n)

\* the root element gpx is the first child of the document read
RootIsFirst ==
  /\ Len(xmlDoc.childNodes) > 0
  /\ xmlDoc.childNodes[1].nodeType = ELEMENT_NODE
  /\ xmlDoc.childNodes[1].tagName = "gpx"

IsNamed(c, tag) == c.nodeType = ELEMENT_NODE /\ c.tagName = tag

\* the children of a node that are elements of one of the names
ChildrenNamed(n, tags) ==
  SelectSeq(n.childNodes,
            LAMBDA c : c.nodeType = ELEMENT_NODE /\ c.tagName \in tags)

CountNamed(n, tag) ==
  Cardinality({i \in 1..Len(n.childNodes) : IsNamed(n.childNodes[i], tag)})

GeometryTypeOf(tag) ==
  CASE tag = "wpt" -> "Point"
    [] tag = "trk" -> "MultiLineString"
    [] tag = "rte" -> "LineString"

\* the wpt, trk and rte children of the first child of the document read
FeatureKids == ChildrenNamed(xmlDoc.childNodes[1], {"wpt", "trk", "rte"})

\* C1: when the root element gpx is the document's first child and has N
\* wpt, M trk and K rte children, toGeoJSON returns a FeatureCollection of
\* exactly N+M+K features; the i-th feature comes from the i-th such child
\* in document order and is typed Point, MultiLineString or LineString by
\* its tag; every other root child yields no feature and no error.
C1_OneFeaturePerRootChild ==
  (pc = "converted" /\ RootIsFirst) =>
    LET root == xmlDoc.childNodes[1] IN
      /\ geoJson.type = "FeatureCollection"
      /\ Len(geoJson.features) =
           CountNamed(root, "wpt") + CountNamed(root, "trk")
           + CountNamed(root, "rte")
      /\ Len(geoJson.features) = Len(FeatureKids)
      /\ \A i \in 1..Len(FeatureKids) :
           /\ geoJson.features[i].type = "Feature"
           /\ geoJson.features[i].geometry.type =
                GeometryTypeOf(FeatureKids[i].tagName)
           /\ geoJson.features[i].properties = PropsBy(lib, FeatureKids[i])

\* a file with waypoints, a track and a route between white space and
\* metadata was converted
C1_Witness ==
  /\ pc = "converted"
  /\ RootIsFirst
  /\ Len(xmlDoc.childNodes[1].childNodes) > Len(FeatureKids)
  /\ Len(geoJson.features) = 4
  /\ geoJson.features[1].geometry.type = "Point"
  /\ geoJson.features[2].geometry.type = "MultiLineString"
  /\ geoJson.features[3].geometry.type = "LineString"
  /\ geoJson.features[4].geometry.type = "Point"

\* the parsererror elements of the tree the parser built from the input
ParserErrorsOf(text) == getElementsByTagName(text.dom, "parsererror")

\* C2: for every input text that is not well-formed, read fails with an
\* error and returns no document, whichever read operation is called.
C2_ReadRejectsMalformed ==
  (pc # "start" /\ ~gpxText.wellFormed) =>
    (xmlDoc = NoDoc /\ thrown # NoError)

\* the message of one violation: its number and the text of its element
ViolationLine(i, e) ==
  ParsingErrorChars \o DecimalChars(i) \o <<":", " ">> \o textContent(e)

\* the messages of the violations from the i-th on, a newline between them
RECURSIVE ViolationLines(_, _)
ViolationLines(es, i) ==
  IF i > Len(es) THEN <<>>
  ELSE (IF i > 1 THEN <<"\n">> ELSE <<>>)
       \o ViolationLine(i, es[i]) \o ViolationLines(es, i + 1)

\* read (v2.0.0) threw
ReadFailed == pc = "failed" /\ lib = "GeoGPXer" /\ xmlDoc = NoDoc

\* read (v2.0.0) threw on a text that is not well-formed
ReadFailedOnMalformed == ReadFailed /\ ~gpxText.wellFormed

\* C3, as claimed: when read fails on a text that is not well-formed, the
\* error delivered to the caller carries one message per parsererror
\* element of the tree, joined by newlines.
C3_ErrorCarriesMessages ==
  ReadFailedOnMalformed =>
    thrown.message = ViolationLines(ParserErrorsOf(gpxText), 1)

\* C3, amended: when read fails on a text that is not well-formed, the
\* error delivered to the caller carries only the fixed text "Failed to
\* parse GPX. See console for details."; the messages, one per parsererror
\* element of the tree and joined by newlines, are written to the console
\* as one entry.
C3_MessagesLoggedNotCarried ==
  ReadFailedOnMalformed =>
    /\ thrown.name = "Error"
    /\ thrown.message = FailedToParseChars
    /\ console = <<ViolationLines(ParserErrorsOf(gpxText), 1)>>

\* read failed on <gpx><wpt lon="1" lat="2"></gpx>: the caller has the fixed
\* text, the console "Parsing Error 1: " and the text of the parser's
\* element, which is its heading, its message and its closing line
C3_Witness ==
  /\ ReadFailedOnMalformed
  /\ thrown.message = FailedToParseChars
  /\ console = <<ParsingErrorChars \o <<"1", ":", " ">> \o ErrorHeaderChars
                 \o MismatchMessage(<<"w", "p", "t">>, 33)
                 \o ErrorFooterChars>>

\* the first element of the name among the nodes and what is below them,
\* in document order: a sequence of one element, or of none
RECURSIVE FirstNamed(_, _)
FirstNamed(ns, tag) ==
  IF ns = <<>> THEN <<>>
  ELSE IF IsNamed(Head(ns), tag) THEN <<Head(ns)>>
  ELSE IF FirstNamed(Head(ns).childNodes, tag) # <<>>
       THEN FirstNamed(Head(ns).childNodes, tag)
       ELSE FirstNamed(Tail(ns), tag)

\* the elevation of a point element: the parsed text of its first ele
\* descendant, 0 when it has none
ElevationOf(n) ==
  IF FirstNamed(n.childNodes, "ele") = <<>> THEN Zero
  ELSE parseFloat(JsStr(textContent(FirstNamed(n.childNodes, "ele")[1])))

\* c is the coordinate of the point element n
IsCoordOf(c, n, inc) ==
  /\ Len(c) = IF inc THEN 3 ELSE 2
  /\ c[1] = parseFloat(getAttribute(n, "lon"))
  /\ c[2] = parseFloat(getAttribute(n, "lat"))
  /\ inc => c[3] = ElevationOf(n)

\* the coordinates of a feature are those of the points of its element
FeatureCoordsFrom(f, k, inc) ==
  CASE k.tagName = "wpt" -> IsCoordOf(f.geometry.coordinates, k, inc)
    [] k.tagName = "trk" ->
         \A j \in 1..Len(f.geometry.coordinates) :
           /\ j <= Len(ChildrenNamed(k, {"trkseg"}))
           /\ \A m \in 1..Len(f.geometry.coordinates[j]) :
                LET pts == getElementsByTagName(
                             ChildrenNamed(k, {"trkseg"})[j], "trkpt")
                IN m <= Len(pts)
                   /\ IsCoordOf(f.geometry.coordinates[j][m], pts[m], inc)
    [] k.tagName = "rte" ->
         \A m \in 1..Len(f.geometry.coordinates) :
           /\ m <= Len(ChildrenNamed(k, {"rtept"}))
           /\ IsCoordOf(f.geometry.coordinates[m],
                        ChildrenNamed(k, {"rtept"})[m], inc)

\* C4: every coordinate toGeoJSON(document, includeElevation) emits, for
\* wpt, trkpt and rtept alike, is [lon, lat] when includeElevation is false
\* and [lon, lat, e] when it is true, e the parsed text of the point's first
\* ele descendant in document order, and 0 when it has none.
C4_CoordinateShape ==
  (pc = "converted" /\ lib \in GeoGPXerLibs) =>
    \A i \in 1..Len(geoJson.features) :
      /\ i <= Len(FeatureKids)
      /\ FeatureCoordsFrom(geoJson.features[i], FeatureKids[i],
                           includeElevation)

\* with elevation asked for, a waypoint with an ele element, a waypoint
\* without one, a track and a route were converted
C4_Witness ==
  /\ pc = "converted"
  /\ lib \in GeoGPXerLibs
  /\ includeElevation
  /\ Len(geoJson.features) = 4
  /\ geoJson.features[1].geometry.coordinates =
       <<Num(FALSE, <<1, 1>>, -1), Num(FALSE, <<1, 0, 1>>, -1),
         Num(FALSE, <<1, 1, 0, 0, 1, 0, 0>>, 0)>>
  /\ FirstNamed(FeatureKids[4].childNodes, "ele") = <<>>
  /\ geoJson.features[4].geometry.coordinates[3] = Zero
  /\ Len(geoJson.features[2].geometry.coordinates[1][1]) = 3
  /\ Len(geoJson.features[3].geometry.coordinates[1]) = 3

\* C5: for every trk element, the MultiLineString coordinates have one
\* sub-array per direct trkseg child, in document order; the j-th holds one
\* coordinate per trkpt descendant of the j-th trkseg, in document order; a
\* trkseg with no trkpt yields an empty sub-array that is kept, and a trk
\* with no trkseg yields an empty list.
C5_OneArrayPerSegment ==
  pc = "converted" =>
    \A i \in 1..Len(geoJson.features) :
      (i <= Len(FeatureKids) /\ FeatureKids[i].tagName = "trk") =>
        LET segs == ChildrenNamed(FeatureKids[i], {"trkseg"})
            cs == geoJson.features[i].geometry.coordinates
        IN /\ Len(cs) = Len(segs)
           /\ \A j \in 1..Len(segs) :
                LET pts == getElementsByTagName(segs[j], "trkpt") IN
                  /\ Len(cs[j]) = Len(pts)
                  /\ \A m \in 1..Len(pts) :
                       /\ cs[j][m][1] = parseFloat(getAttribute(pts[m], "lon"))
                       /\ cs[j][m][2] = parseFloat(getAttribute(pts[m], "lat"))

\* a track of two segments, the first of two points and the second empty,
\* and a track with no segment were converted
C5_Witness ==
  /\ pc = "converted"
  /\ Len(geoJson.features) = 2
  /\ geoJson.features[1].geometry.type = "MultiLineString"
  /\ Len(geoJson.features[1].geometry.coordinates) = 2
  /\ Len(geoJson.features[1].geometry.coordinates[1]) = 2
  /\ geoJson.features[1].geometry.coordinates[2] = <<>>
  /\ geoJson.features[2].geometry.type = "MultiLineString"
  /\ geoJson.features[2].geometry.coordinates = <<>>

\* the tag names of the direct element children other than extensions
DirectTags(n) ==
  {n.childNodes[i].tagName :
     i \in {j \in 1..Len(n.childNodes) :
              /\ n.childNodes[j].nodeType = ELEMENT_NODE
              /\ n.childNodes[j].tagName # "extensions"}}

\* the last direct child of that name
LastNamed(n, tag) ==
  n.childNodes[CHOOSE i \in 1..Len(n.childNodes) :
                 /\ IsNamed(n.childNodes[i], tag)
                 /\ \A j \in (i + 1)..Len(n.childNodes) :
                      ~IsNamed(n.childNodes[j], tag)]

\* the text of the text nodes that are direct children of the element
DirectText(c) ==
  Flatten([i \in 1..Len(c.childNodes) |->
             IF c.childNodes[i].nodeType = TEXT_NODE
             THEN c.childNodes[i].data ELSE <<>>])

\* C6: the non-extension part of extractProperties(node) (what its first
\* loop builds) has one key per distinct tag name among the direct element
\* children other than extensions; the value is the direct text of the last
\* direct child of that name, text of deeper descendants left out; the key
\* "extensions" never appears in the result.
C6_DirectTextOnly ==
  pc = "extracted" =>
    /\ DOMAIN StdProps(node) = DirectTags(node)
    /\ \A t \in DirectTags(node) \cap DOMAIN StdProps(node) :
         StdProps(node)[t] = DirectText(LastNamed(node, t))
    /\ DirectTags(node) \subseteq DOMAIN props
    /\ "extensions" \notin DOMAIN props

\* C7: each direct element child other than extensions keeps its own key
\* and value in the result of extractProperties, whatever the extensions
\* block holds: the prefixed extension keys and the standard keys never
\* collide.
C7_NoCollision ==
  pc = "extracted" =>
    \A t \in DOMAIN StdProps(node) :
      /\ t \in DOMAIN props
      /\ props[t] = StdProps(node)[t]

\* an attribute value from which parseFloat reads no number
NonNumeric(v) ==
  \/ v.isNull
  \/ v.str = <<>>
  \/ /\ ~IsDigit(v.str[1])
     /\ ~IsWhiteSpace(v.str[1])
     /\ v.str[1] \notin {"+", "-", ".", "I"}

\* C8: on every tree that read returned, toGeoJSON raises no error and
\* returns a FeatureCollection: a point without lon or lat, or with text
\* that is no number, gets a NaN component, a missing ele gives 0, other
\* root children are skipped and empty track segments give empty
\* sub-arrays; no feature is dropped.
C8_ConversionIsTotal ==
  /\ pc = "failed" => (xmlDoc = NoDoc /\ geoJson = NoResult)
  /\ pc = "converted" =>
       /\ geoJson.type = "FeatureCollection"
       /\ RootIsFirst => Len(geoJson.features) = Len(FeatureKids)
       /\ \A i \in 1..Len(geoJson.features) :
            LET k == FeatureKids[i]
                cs == geoJson.features[i].geometry.coordinates
            IN /\ k.tagName = "wpt" =>
                    /\ NonNumeric(getAttribute(k, "lon")) => cs[1] = NaN
                    /\ NonNumeric(getAttribute(k, "lat")) => cs[2] = NaN
                    /\ (includeElevation
                        /\ FirstNamed(k.childNodes, "ele") = <<>>)
                         => cs[3] = Zero
               /\ k.tagName = "trk" =>
                    \A j \in 1..Len(ChildrenNamed(k, {"trkseg"})) :
                      ChildrenNamed(k, {"trkseg"})[j].childNodes = <<>>
                        => (j <= Len(cs) /\ cs[j] = <<>>)

\* a file with metadata, a waypoint without attributes and without ele and
\* a track with an empty segment was converted, elevation asked for
C8_Witness ==
  /\ pc = "converted"
  /\ includeElevation
  /\ RootIsFirst
  /\ \E i \in 1..Len(xmlDoc.childNodes[1].childNodes) :
       IsNamed(xmlDoc.childNodes[1].childNodes[i], "metadata")
  /\ Len(geoJson.features) = 4
  /\ geoJson.features[4].geometry.coordinates = <<NaN, NaN, Zero>>
  /\ geoJson.features[2].geometry.coordinates[2] = <<>>

PrefixOf(l) == IF l = "Gpx" THEN "extension_" ELSE "ex_"

\* C9: extractProperties takes the prefixed extension properties only from
\* the first direct child named extensions; a node with no such direct
\* child gets no prefixed extension key.
C9_ExtensionsFromDirectChild ==
  pc = "extracted" =>
    props = IF ChildrenNamed(node, {"extensions"}) = <<>>
            THEN StdProps(node)
            ELSE ExtProps(ChildrenNamed(node, {"extensions"})[1],
                          StdProps(node), PrefixOf(lib))

\* the conversion the library in use makes
ConvertBy(l, document, inc) ==
  IF l = "Gpx" THEN Gpx_toGeoJSON(document) ELSE toGeoJSON(document, inc)

\* the document without the nodes before its root element
WithoutLeadingNodes(document) ==
  Document(SelectSeq(document.childNodes,
                     LAMBDA c : c.nodeType = ELEMENT_NODE))

\* C10: toGeoJSON dispatches over the children of the root element gpx
\* whatever nodes come before it: the features are those of the document
\* with the leading nodes removed.
C10_LeadingNodesIgnored ==
  pc = "converted" =>
    geoJson = ConvertBy(lib, WithoutLeadingNodes(xmlDoc), includeElevation)

\* C11: for every rte element, the LineString coordinates are one flat
\* sequence with one coordinate per direct rtept child, in document order;
\* an rtept below another child of the rte contributes none, and an rte
\* with no rtept child yields an empty sequence.
C11_OneCoordinatePerRoutePoint ==
  pc = "converted" =>
    \A i \in 1..Len(geoJson.features) :
      (i <= Len(FeatureKids) /\ FeatureKids[i].tagName = "rte") =>
        LET pts == ChildrenNamed(FeatureKids[i], {"rtept"})
            cs == geoJson.features[i].geometry.coordinates
        IN /\ geoJson.features[i].geometry.type = "LineString"
           /\ Len(cs) = Len(pts)
           /\ \A m \in 1..Len(pts) :
                /\ Len(cs[m]) = IF includeElevation THEN 3 ELSE 2
                /\ cs[m][1] = parseFloat(getAttribute(pts[m], "lon"))
                /\ cs[m][2] = parseFloat(getAttribute(pts[m], "lat"))

\* a route with a route point below its extensions and one direct route
\* point, and a route with no route point, were converted
C11_Witness ==
  /\ pc = "converted"
  /\ Len(geoJson.features) = 2
  /\ FeatureKids[1].tagName = "rte"
  /\ Len(getElementsByTagName(FeatureKids[1], "rtept")) = 2
  /\ geoJson.features[1].geometry.coordinates = 
       <<<<Num(FALSE, <<1, 0, 1>>, 0), Num(FALSE, <<1, 1, 0>>, 0)>>>>
  /\ FeatureKids[2].tagName = "rte"
  /\ geoJson.features[2].geometry.coordinates = <<>>

\* C12: read fails only for malformed input: for every well-formed input
\* text, one with an element of its own named parsererror included, read
\* raises no error and returns the parsed tree unchanged.
C12_ReadAcceptsWellFormed ==
  (pc # "start" /\ gpxText.wellFormed) =>
    /\ thrown = NoError
    /\ pc # "failed"
    /\ xmlDoc = gpxText.dom

====
